---- MODULE Spec2Model ----
(***************************************************************************)
(* State-machine model of the Movie Database application (SQL edition):    *)
(* the per-user record store (movie/storage_sql.py), the user registry     *)
(* (users/storage_sql.py), the active-user session (users/session_user.py),*)
(* the movie handlers (movies/handler.py), the command dispatcher          *)
(* (helpers/dispatcher_utils.py) and the two menu loops run by main.py.    *)
(*                                                                         *)
(* Encodings: Python None is NoUserId (ids handed out by AUTOINCREMENT     *)
(* start at 1) resp. NoUserName; a REAL rating r is kept as the integer    *)
(* 10*r; a dict is a function whose DOMAIN is its key set; a printed       *)
(* message is a tag in the set msgs of the last command.                   *)
(*                                                                         *)
(* Three specifications share the definitions: Spec is main() as a user    *)
(* drives it through the two menus; SpecAPI calls execute_operation and    *)
(* the handlers with any code and any session; SpecStore calls the record  *)
(* store's functions with any arguments.                                   *)
(***************************************************************************)
EXTENDS Integers, Sequences, FiniteSets, TLC

VARIABLES
    users,           \* rows of table users: [id, username]
    user_seq,        \* sqlite_sequence of table users (last id handed out)
    movies,          \* rows of table movies (column id is never read: left out)
    active_user,     \* session_user.active_user
    active_user_id,  \* session_user.active_user_id
    movie_dict,      \* the in-memory collection handed to the handlers
    pc,              \* position of main(): which loop is prompting
    last,            \* the last executed command: its inputs and what it printed
    before           \* store, collection and session as that command found them

vars == <<users, user_seq, movies, active_user, active_user_id, movie_dict, pc,
          last, before>>

-----------------------------------------------------------------------------
(* Bounds of the model *)

\* cap on the AUTOINCREMENT counter of table users (ids are never reused)
MaxUserSeq == 2

\* the ids handed out when the user menu is followed on its own
MaxRegistrySeq == 3

\* usernames typed at the create-user prompt
Usernames == {"ann", "Bob", ""}

\* titles typed at the title prompts, as typed (before strip())
RawTitles == {" Dune ", "Heat"}

\* what is typed at the note prompt (before strip()) and at the Yes/No prompt
UpdateInputs == {<<" great ", "Yes">>, <<"", "No">>}

-----------------------------------------------------------------------------
(* Program constants *)

NoUserId == 0
NoUserName == "<None>"

\* a JSON null of the OMDb reply (Python None bound to a TEXT column)
JsonNull == "<null>"

\* get_current_year(): the calendar year of the run
CurrentYear == 2026

RATING_BASE == 0
RATING_LIMIT == 10
FIRST_MOVIE_RELEASE == 1888
MENU_MIN_INDEX == 0
MENU_MAX_INDEX == 12

COMMANDS_REQUIRING_MOVIES == {1, 3, 4, 5, 6, 7, 8, 9, 10}

\* a table that lacks the entry of the last index
MOVIE_COMMAND_DISPATCHER_short ==
    [c \in 0..11 |->
        CASE c = 0 -> "handle_quit_application"
          [] c = 1 -> "handle_show_movies"
          [] c = 2 -> "handle_add_movie"
          [] c = 3 -> "handle_delete_movie"
          [] c = 4 -> "handle_update_movie"
          [] c = 5 -> "handle_show_movie_statistics"
          [] c = 6 -> "handle_random_movie"
          [] c = 7 -> "handle_search_movie"
          [] c = 8 -> "handle_sorted_movies_by_attribute"
          [] c = 9 -> "handle_create_histogram_by_attribute"
          [] c = 10 -> "handle_filter_movies"
          [] c = 11 -> "handle_generate_website"]

\* menu index -> handler name, movies/dispatcher.py
MOVIE_COMMAND_DISPATCHER ==
    [c \in 0..12 |->
        CASE c = 0 -> "handle_quit_application"
          [] c = 1 -> "handle_show_movies"
          [] c = 2 -> "handle_add_movie"
          [] c = 3 -> "handle_delete_movie"
          [] c = 4 -> "handle_update_movie"
          [] c = 5 -> "handle_show_movie_statistics"
          [] c = 6 -> "handle_random_movie"
          [] c = 7 -> "handle_search_movie"
          [] c = 8 -> "handle_sorted_movies_by_attribute"
          [] c = 9 -> "handle_create_histogram_by_attribute"
          [] c = 10 -> "handle_filter_movies"
          [] c = 11 -> "handle_generate_website"
          [] c = 12 -> "handle_switch_user"]

-----------------------------------------------------------------------------
(* Input conversion *)

\* str.strip() on the strings of the model
Strip(s) ==
    CASE s = " Dune " -> "Dune"
      [] s = " great " -> "great"
      [] OTHER -> s

\* get_colored_input: input(...).strip()
get_colored_input(raw) == Strip(raw)

Titles == {get_colored_input(r) : r \in RawTitles}

-----------------------------------------------------------------------------
(* Record store: movie/storage_sql.py over the schema of config/sql_queries.py *)

\* bool(x) of an INTEGER column
ToBool(i) == i # 0

\* int(b) of a Python bool
ToInt(b) == IF b THEN 1 ELSE 0

\* SELECT ... FROM movies WHERE user_id = :user_id
\* (a NULL parameter compares equal to nothing)
SelectMoviesByUserId(tbl, user_id) ==
    IF user_id = NoUserId THEN {} ELSE {r \in tbl : r.user_id = user_id}

\* list_movies: title -> attributes, is_favorite converted with bool()
list_movies(tbl, user_id) ==
    LET rows == SelectMoviesByUserId(tbl, user_id)
        RowOf(t) == CHOOSE r \in rows : r.title = t
    IN [t \in {r.title : r \in rows} |->
            [year |-> RowOf(t).year,
             rating |-> RowOf(t).rating,
             note |-> RowOf(t).note,
             poster_url |-> RowOf(t).poster_url,
             imdb_id |-> RowOf(t).imdb_id,
             country |-> RowOf(t).country,
             is_favorite |-> ToBool(RowOf(t).is_favorite)]]

\* a table without the UNIQUE constraint: a second row per key gets in
UniqueNotEnforced(tbl, user_id, title) == FALSE

\* UNIQUE(user_id, title)
UniqueViolated(tbl, user_id, title) ==
    \E r \in tbl : r.user_id = user_id /\ r.title = title

\* a table whose user_id column accepts NULL
NotNullOnPosterOnly(user_id, attributes) ==
    attributes.poster_url = JsonNull

\* user_id INTEGER NOT NULL, poster_url TEXT NOT NULL
NotNullViolated(user_id, attributes) ==
    user_id = NoUserId \/ attributes.poster_url = JsonNull

\* an INSERT that binds :year and :rating to each other's column
InsertMovieSwapped(tbl, user_id, title, attributes) ==
    IF NotNullViolated(user_id, attributes) \/ UniqueViolated(tbl, user_id, title)
    THEN [ok |-> FALSE, tbl |-> tbl]
    ELSE [ok |-> TRUE,
          tbl |-> tbl \cup {[user_id |-> user_id,
                             title |-> title,
                             year |-> attributes.rating,
                             rating |-> attributes.year,
                             note |-> "",
                             poster_url |-> attributes.poster_url,
                             imdb_id |-> attributes.imdb_id,
                             country |-> attributes.country,
                             is_favorite |-> ToInt(FALSE)]}]

\* the INSERT of add_movie: the row it adds, or the constraint it trips
InsertMovie(tbl, user_id, title, attributes) ==
    IF NotNullViolated(user_id, attributes) \/ UniqueViolated(tbl, user_id, title)
    THEN [ok |-> FALSE, tbl |-> tbl]
    ELSE [ok |-> TRUE,
          tbl |-> tbl \cup {[user_id |-> user_id,
                             title |-> title,
                             year |-> attributes.year,
                             rating |-> attributes.rating,
                             note |-> "",
                             poster_url |-> attributes.poster_url,
                             imdb_id |-> attributes.imdb_id,
                             country |-> attributes.country,
                             is_favorite |-> ToInt(FALSE)]}]

\* add_movie: io_fails is a failure of execute/commit (locked file, full disk);
\* every exception is caught and printed
add_movie(tbl, user_id, title, attributes, io_fails) ==
    LET ins == InsertMovie(tbl, user_id, title, attributes)
    IN IF io_fails \/ ~ins.ok
       THEN [tbl |-> tbl, msgs |-> {"StoreError"}]
       ELSE [tbl |-> ins.tbl, msgs |-> {"StoreAdded"}]

\* a DELETE whose WHERE clause names the title only
DeleteMovieRowsByTitle(tbl, user_id, title) ==
    {r \in tbl : r.title # title}

\* DELETE FROM movies WHERE title = :title AND user_id = :user_id
DeleteMovieRows(tbl, user_id, title) ==
    {r \in tbl : ~(r.title = title /\ r.user_id = user_id /\ user_id # NoUserId)}

\* delete_movie: success is printed whenever the statement ran,
\* whatever the number of rows it removed
delete_movie(tbl, user_id, title, io_fails) ==
    IF io_fails
    THEN [tbl |-> tbl, msgs |-> {"StoreError"}]
    ELSE [tbl |-> DeleteMovieRows(tbl, user_id, title), msgs |-> {"StoreDeleted"}]

\* an UPDATE whose WHERE clause names the title only
UpdateMovieRowsByTitle(tbl, user_id, title, note, is_favorite) ==
    {IF r.title = title
     THEN [r EXCEPT !.note = note, !.is_favorite = is_favorite]
     ELSE r : r \in tbl}

\* UPDATE movies SET note = :note, is_favorite = :is_favorite
\* WHERE title = :title AND user_id = :user_id
UpdateMovieRows(tbl, user_id, title, note, is_favorite) ==
    {IF r.title = title /\ r.user_id = user_id /\ user_id # NoUserId
     THEN [r EXCEPT !.note = note, !.is_favorite = is_favorite]
     ELSE r : r \in tbl}

\* update_movie
update_movie(tbl, user_id, title, note, is_favorite, io_fails) ==
    IF io_fails
    THEN [tbl |-> tbl, msgs |-> {"StoreError"}]
    ELSE [tbl |-> UpdateMovieRows(tbl, user_id, title, note, is_favorite),
          msgs |-> {"StoreUpdated"}]

-----------------------------------------------------------------------------
(* User registry: users/storage_sql.py *)

\* list_users: id -> username
list_users(utbl) ==
    [i \in {u.id : u \in utbl} |-> (CHOOSE u \in utbl : u.id = i).username]

\* a plain INSERT into a table without UNIQUE(username)
create_user_always(utbl, seq, username) ==
    [users |-> utbl \cup {[id |-> seq + 1, username |-> username]},
     seq |-> seq + 1]

\* INSERT OR IGNORE INTO users (username): the rowid is drawn from the
\* AUTOINCREMENT counter before UNIQUE(username) is checked, so an ignored
\* insert leaves the rows alone and still uses up an id
create_user_if_not_exists(utbl, seq, username) ==
    IF \E u \in utbl : u.username = username
    THEN [users |-> utbl, seq |-> seq + 1]
    ELSE [users |-> utbl \cup {[id |-> seq + 1, username |-> username]},
          seq |-> seq + 1]

-----------------------------------------------------------------------------
(* Session: users/session_user.py *)

set_active_user(user_id, username) ==
    [active_user |-> username, active_user_id |-> user_id]

\* a clear_active_user that forgets the name and keeps the id
clear_active_user_name_only ==
    [active_user |-> NoUserName, active_user_id |-> active_user_id]

clear_active_user ==
    [active_user |-> NoUserName, active_user_id |-> NoUserId]

\* abort_if_no_active_user: prints and returns None; it does not raise
abort_if_no_active_user(uid) ==
    IF uid = NoUserId
    THEN [user_id |-> NoUserId, msgs |-> {"NoActiveUser"}]
    ELSE [user_id |-> uid, msgs |-> {}]

-----------------------------------------------------------------------------
(* Enrichment: the OMDb reply and helpers/movie_utils.parse_fields *)

\* float(s): the literals Python accepts, as 10 * value
ParseFloat(s) ==
    CASE s = "8.0" -> [ok |-> TRUE, val |-> 80]
      [] s = "8.3" -> [ok |-> TRUE, val |-> 83]
      [] s = "11.0" -> [ok |-> TRUE, val |-> 110]
      [] s = "1800" -> [ok |-> TRUE, val |-> 18000]
      [] s = "2021" -> [ok |-> TRUE, val |-> 20210]
      [] s = "1995" -> [ok |-> TRUE, val |-> 19950]
      [] OTHER -> [ok |-> FALSE, val |-> 0]

\* int(s)
ParseInt(s) ==
    CASE s = "2021" -> [ok |-> TRUE, val |-> 2021]
      [] s = "1995" -> [ok |-> TRUE, val |-> 1995]
      [] s = "1800" -> [ok |-> TRUE, val |-> 1800]
      [] OTHER -> [ok |-> FALSE, val |-> 0]

\* expected_type(raw_value); str() accepts everything
Cast(expected_type, raw_value) ==
    CASE expected_type = "float" -> ParseFloat(raw_value)
      [] expected_type = "int" -> ParseInt(raw_value)
      [] OTHER -> [ok |-> TRUE, val |-> raw_value]

\* the required_fields of handle_add_movie, in dict order
RequiredFields ==
    << <<"imdbRating", "float">>, <<"Year", "int">>,
       <<"imdbID", "str">>, <<"Country", "str">> >>

RECURSIVE ParseFrom(_, _, _, _)
ParseFrom(data, fields, i, acc) ==
    IF i > Len(fields)
    THEN [ok |-> TRUE, result |-> acc]
    ELSE LET field == fields[i][1]
             c == Cast(fields[i][2], data[field])
         IN IF field \notin DOMAIN data
            THEN [ok |-> FALSE, result |-> acc]
            ELSE IF ~c.ok
                 THEN [ok |-> FALSE, result |-> acc]
                 ELSE ParseFrom(data, fields, i + 1, acc @@ (field :> c.val))

\* a parse_fields that falls back to defaults instead of raising
parse_fields_lenient(data, required_fields) ==
    [ok |-> TRUE,
     result |-> [imdbRating |-> 0, Year |-> 0, imdbID |-> "", Country |-> ""]]

\* parse_fields: ok = FALSE stands for the ValueError it raises
parse_fields(data, required_fields) ==
    ParseFrom(data, required_fields, 1, <<>>)

\* the titles OMDb has a record of
OmdbTitles == {"Dune"}

\* the record OMDb serves for such a title
OmdbRecord(title) ==
    [Response |-> "True", imdbRating |-> "8.0", Year |-> "2021",
     imdbID |-> "tt1160419", Country |-> "United States, Canada",
     Poster |-> "dune.jpg"]

Without(d, key) == [k \in DOMAIN d \ {key} |-> d[k]]

With(d, key, v) == [k \in DOMAIN d \cup {key} |-> IF k = key THEN v ELSE d[k]]

Reply(raises, status_code, data) ==
    [raises |-> raises, status_code |-> status_code, data |-> data]

NotFoundBody == [Response |-> "False", Error |-> "Movie not found!"]

\* the reply that passes every check of handle_add_movie
GoodReplies(title) ==
    IF title \in OmdbTitles THEN {Reply(FALSE, 200, OmdbRecord(title))} ELSE {}

\* the replies requests.get can produce for a title: it raises (network error,
\* a body that is no JSON), an HTTP error status, or a decoded body: "not
\* found", the record, or the record with one field absent or unusable
OmdbReplies(title) ==
    {Reply(TRUE, 200, NotFoundBody), Reply(FALSE, 500, NotFoundBody)}
    \cup IF title \notin OmdbTitles
         THEN {Reply(FALSE, 200, NotFoundBody)}
         ELSE LET good == OmdbRecord(title)
              IN {Reply(FALSE, 200, d) :
                    d \in {good,
                           With(good, "imdbRating", "N/A"),
                           Without(good, "imdbRating"),
                           With(good, "Year", "2010-2015"),
                           Without(good, "Year"),
                           Without(good, "imdbID"),
                           Without(good, "Country"),
                           Without(good, "Poster"),
                           With(good, "Poster", JsonNull)}}

\* a well-formed reply whose rating and year lie outside the configured range
OutOfRangeReplies(title) ==
    IF title \in OmdbTitles
    THEN {Reply(FALSE, 200,
                With(With(OmdbRecord(title), "imdbRating", "11.0"), "Year", "1800"))}
    ELSE {}

\* dict.get(key): None when the key is absent
DictGet(d, key) == IF key \in DOMAIN d THEN d[key] ELSE JsonNull

\* d[key] = v
DictSet(d, key, v) == With(d, key, v)

\* d.pop(key, None)
DictPop(d, key) == Without(d, key)

-----------------------------------------------------------------------------
(* Handlers: movies/handler.py and users/handler.py.  A handler maps the     *)
(* store, the collection it was handed and the session to what they are when *)
(* it returns, with the messages it printed.                                 *)

Outcome(tbl, dict, msgs) ==
    [tbl |-> tbl, dict |-> dict, msgs |-> msgs, raises |-> FALSE]

\* the handler did not return: an exception left it uncaught (a SELECT of
\* list_movies that fails outside any try block)
Raise(tbl, dict, msgs) ==
    [tbl |-> tbl, dict |-> dict, msgs |-> msgs, raises |-> TRUE]

\* the attributes dict handle_add_movie builds from the parsed reply
BuildAttributes(parsed, data) ==
    [rating |-> parsed["imdbRating"],
     year |-> parsed["Year"],
     poster_url |-> data["Poster"],
     imdb_id |-> parsed["imdbID"],
     country |-> parsed["Country"]]

\* the refresh of handle_add_movie and handle_update_movie:
\* movie_dict[name] = list_movies(user_id)[name] when the store lists name
RefreshEntry(tbl, dict, user_id, name) ==
    LET updated_movies == list_movies(tbl, user_id)
    IN IF name \in DOMAIN updated_movies
       THEN DictSet(dict, name, updated_movies[name])
       ELSE dict

\* handle_add_movie, from the request on (the name is not in movie_dict)
AddFromReply(tbl, dict, user_id, name, reply, io_fails, read_fails) ==
    LET data == reply.data
        parsed == parse_fields(data, RequiredFields)
    IN IF reply.raises
       THEN Outcome(tbl, dict, {"AddFailed"})
       ELSE IF reply.status_code # 200
       THEN Outcome(tbl, dict, {"ApiRequestFailed"})
       ELSE IF DictGet(data, "Response") = "False"
       THEN Outcome(tbl, dict, {"ApiNotFound"})
       ELSE IF ~parsed.ok
       THEN Outcome(tbl, dict, {"FieldError"})
       ELSE IF "Poster" \notin DOMAIN data
       THEN Outcome(tbl, dict, {"AddFailed"})
       ELSE LET stored == add_movie(tbl, user_id, name,
                                    BuildAttributes(parsed.result, data), io_fails)
            IN IF read_fails
               THEN Outcome(stored.tbl, dict, stored.msgs \cup {"AddFailed"})
               ELSE Outcome(stored.tbl,
                            RefreshEntry(stored.tbl, dict, user_id, name),
                            stored.msgs)

handle_add_movie(tbl, dict, uid, raw_name, reply, io_fails, read_fails) ==
    LET guard == abort_if_no_active_user(uid)
        new_movie_name == get_colored_input(raw_name)
        rest == IF new_movie_name \in DOMAIN dict
                THEN Outcome(tbl, dict, {"MovieExists"})
                ELSE AddFromReply(tbl, dict, guard.user_id, new_movie_name,
                                  reply, io_fails, read_fails)
    IN Outcome(rest.tbl, rest.dict, guard.msgs \cup rest.msgs)

handle_delete_movie(tbl, dict, uid, raw_name, io_fails, read_fails) ==
    LET guard == abort_if_no_active_user(uid)
        user_movies == list_movies(tbl, guard.user_id)
        movie_to_delete == get_colored_input(raw_name)
        deleted == delete_movie(tbl, guard.user_id, movie_to_delete, io_fails)
    IN IF read_fails
       THEN Raise(tbl, dict, guard.msgs)
       ELSE IF DOMAIN user_movies = {}
       THEN Outcome(tbl, dict, guard.msgs \cup {"NoMoviesToDelete"})
       ELSE IF movie_to_delete \notin DOMAIN user_movies
       THEN Outcome(tbl, dict, guard.msgs \cup {"NotFound"})
       ELSE Outcome(deleted.tbl,
                    DictPop(dict, movie_to_delete),
                    guard.msgs \cup deleted.msgs \cup {"Deleted"})

\* find_movie prompts until the name is one of user_movies: the handler
\* returns only for such a name
find_movie_accepts(user_movies, raw_name) ==
    get_colored_input(raw_name) \in DOMAIN user_movies

\* handle_update_movie; read_fails is the failure of the first list_movies,
\* outside the try block, refresh_fails that of the list_movies after the
\* UPDATE, inside it: the except branch prints the error and returns
handle_update_movie(tbl, dict, uid, raw_name, raw_note, answer, io_fails, read_fails, refresh_fails) ==
    LET guard == abort_if_no_active_user(uid)
        user_movies == list_movies(tbl, guard.user_id)
        movie_name == get_colored_input(raw_name)
        new_note == get_colored_input(raw_note)
        is_favourite == (answer = "Yes")
        updated == update_movie(tbl, guard.user_id, movie_name, new_note,
                                ToInt(is_favourite), io_fails)
    IN IF read_fails
       THEN Raise(tbl, dict, guard.msgs)
       ELSE IF DOMAIN user_movies = {}
       THEN Outcome(tbl, dict, guard.msgs \cup {"NoMoviesToUpdate"})
       ELSE IF movie_name \notin DOMAIN user_movies
       THEN Outcome(tbl, dict, guard.msgs \cup {"NotFound"})
       ELSE IF refresh_fails
       THEN Outcome(updated.tbl, dict,
                    guard.msgs \cup updated.msgs \cup {"UpdateFailed"})
       ELSE Outcome(updated.tbl,
                    RefreshEntry(updated.tbl, dict, guard.user_id, movie_name),
                    guard.msgs \cup updated.msgs \cup {"Updated"})

\* handle_show_movies reads the store, not the collection it was handed
handle_show_movies(tbl, dict, uid, read_fails) ==
    LET guard == abort_if_no_active_user(uid)
        movies_for_user == list_movies(tbl, guard.user_id)
    IN IF read_fails
       THEN Raise(tbl, dict, guard.msgs)
       ELSE IF DOMAIN movies_for_user = {}
       THEN Outcome(tbl, dict, guard.msgs \cup {"NoMoviesToShow"})
       ELSE Outcome(tbl, dict, guard.msgs \cup {"MoviesShown"})

\* a read-only handler that takes the records it shows out of the collection
handle_read_only_consuming(tbl, dict, uid) ==
    LET guard == abort_if_no_active_user(uid)
    IN IF DOMAIN dict = {}
       THEN Outcome(tbl, dict, guard.msgs \cup {"NoMovies"})
       ELSE Outcome(tbl, [t \in {} |-> dict[t]], guard.msgs \cup {"ResultShown"})

\* statistics, random, search, sort, histogram and filter: each prints its
\* own "no movies" error on an empty collection and its result otherwise
handle_read_only(tbl, dict, uid) ==
    LET guard == abort_if_no_active_user(uid)
    IN IF DOMAIN dict = {}
       THEN Outcome(tbl, dict, guard.msgs \cup {"NoMovies"})
       ELSE Outcome(tbl, dict, guard.msgs \cup {"ResultShown"})

\* handle_generate_website writes the HTML file and nothing else
handle_generate_website(tbl, dict, uid) ==
    LET guard == abort_if_no_active_user(uid)
    IN Outcome(tbl, dict, guard.msgs \cup {"WebsiteWritten"})

\* a quit_application that prints and returns
quit_application_returns == [msgs |-> {"Bye"}, exits |-> FALSE]

\* helpers/system_utils.quit_application: print("Bye!"); sys.exit(0)
quit_application == [msgs |-> {"Bye"}, exits |-> TRUE]

\* handle_quit_application
handle_quit_application(tbl, dict) == Outcome(tbl, dict, quit_application.msgs)

\* handle_select_user: data[user_id]["username"] becomes the active user
\* a selection that records the id and leaves the name unset
handle_select_user_id_only(data, user_id) ==
    [active_user |-> NoUserName, active_user_id |-> user_id]

handle_select_user(data, user_id) == set_active_user(user_id, data[user_id])

\* handle_switch_user
handle_switch_user == clear_active_user

-----------------------------------------------------------------------------
(* Dispatch: helpers/dispatcher_utils.py *)

\* what a command needs from the keyboard, the network and the disk
NoReply == [raises |-> FALSE, status_code |-> 0, data |-> [Response |-> "False"]]

Inputs(raw_title, reply, raw_note, answer, io_fails) ==
    [raw_title |-> raw_title, reply |-> reply, raw_note |-> raw_note,
     answer |-> answer, io_fails |-> io_fails, read_fails |-> FALSE,
     refresh_fails |-> FALSE]

\* the same inputs on a database whose SELECTs fail during the command
WithReadFailure(inp) == [inp EXCEPT !.read_fails = TRUE]

\* the same inputs on a database whose SELECT fails after the UPDATE
WithRefreshFailure(inp) == [inp EXCEPT !.refresh_fails = TRUE]

Session(username, user_id) == [active_user |-> username, active_user_id |-> user_id]

\* the state a dispatched command leaves, the handler it ran, the bool it
\* returned and whether it ended the process (sys.exit)
Done(o, session, handler, exits) ==
    [tbl |-> o.tbl, dict |-> o.dict, msgs |-> o.msgs, session |-> session,
     handler |-> handler, ret |-> FALSE, exits |-> exits, raises |-> o.raises]

\* command_data["handler"](None, data, args)
CallHandler(handler, tbl, dict, session, inp) ==
    LET uid == session.active_user_id
    IN CASE handler = "handle_quit_application" ->
              Done(handle_quit_application(tbl, dict), session, handler,
                   quit_application.exits)
         [] handler = "handle_show_movies" ->
              Done(handle_show_movies(tbl, dict, uid, inp.read_fails),
                   session, handler, FALSE)
         [] handler = "handle_add_movie" ->
              Done(handle_add_movie(tbl, dict, uid, inp.raw_title, inp.reply,
                                    inp.io_fails, inp.read_fails),
                   session, handler, FALSE)
         [] handler = "handle_delete_movie" ->
              Done(handle_delete_movie(tbl, dict, uid, inp.raw_title, inp.io_fails,
                                       inp.read_fails),
                   session, handler, FALSE)
         [] handler = "handle_update_movie" ->
              Done(handle_update_movie(tbl, dict, uid, inp.raw_title, inp.raw_note,
                                       inp.answer, inp.io_fails, inp.read_fails,
                                       inp.refresh_fails),
                   session, handler, FALSE)
         [] handler = "handle_generate_website" ->
              Done(handle_generate_website(tbl, dict, uid), session, handler, FALSE)
         [] handler = "handle_switch_user" ->
              Done(Outcome(tbl, dict, {}), handle_switch_user, handler, FALSE)
         [] OTHER ->
              Done(handle_read_only(tbl, dict, uid), session, handler, FALSE)

\* an execute_operation that runs the last entry of the table for a code it
\* does not know
execute_operation_fallback(user_input, tbl, dict, session, dispatcher, inp) ==
    CallHandler(dispatcher[IF user_input \in DOMAIN dispatcher
                           THEN user_input
                           ELSE MENU_MAX_INDEX],
                tbl, dict, session, inp)

\* execute_operation(user_input, data, dispatcher)
execute_operation(user_input, tbl, dict, session, dispatcher, inp) ==
    IF user_input \notin DOMAIN dispatcher
    THEN [tbl |-> tbl, dict |-> dict, msgs |-> {"UnknownCommand"},
          session |-> session, handler |-> "none", ret |-> FALSE, exits |-> FALSE,
          raises |-> FALSE]
    ELSE CallHandler(dispatcher[user_input], tbl, dict, session, inp)

-----------------------------------------------------------------------------
(* User menu: users/dispatcher.py and users/menu.py *)

CreateLabel == "Create new user"

\* get_user_command_dispatcher: one entry per user id, then the create entry
\* stored at key len(users) + 1
get_user_command_dispatcher(utbl) ==
    LET us == list_users(utbl)
        n == Cardinality(DOMAIN us)
    IN [k \in DOMAIN us \cup {n + 1} |->
            IF k = n + 1
            THEN [handler |-> "handle_create_user", label |-> CreateLabel,
                  args |-> NoUserId]
            ELSE [handler |-> "handle_select_user", label |-> us[k], args |-> k]]

\* str.lower() on the labels of the model
Lower(label) == IF label = "Bob" THEN "bob" ELSE label

\* position of a lowercased label in Python's string order
StrRank(str) ==
    CASE str = "" -> 0
      [] str = "ann" -> 1
      [] str = "bob" -> 2
      [] OTHER -> 3

\* get_label_lower
get_label_lower(entry) == StrRank(Lower(entry.label))

RECURSIVE SortKeysByLabel(_, _)
SortKeysByLabel(d, ks) ==
    IF ks = {}
    THEN <<>>
    ELSE LET m == CHOOSE k \in ks :
                    \A j \in ks :
                        \/ get_label_lower(d[k]) < get_label_lower(d[j])
                        \/ get_label_lower(d[k]) = get_label_lower(d[j]) /\ k <= j
         IN <<m>> \o SortKeysByLabel(d, ks \ {m})

\* sorted_dispatcher: the keys of the user entries, by lowercased label
\* (list.sort is stable: equal labels stay in dict order, which is id order)
sorted_dispatcher(d) ==
    SortKeysByLabel(d, {k \in DOMAIN d : d[k].label # CreateLabel})

\* next(v for v in dispatcher.values() if v["label"] == "Create new user"):
\* user entries come first in id order, the create entry keeps the position of
\* the key it was stored at
FirstCreateLabelled(d, utbl) ==
    LET ids == {u.id : u \in utbl}
        labelled == {k \in DOMAIN d : d[k].label = CreateLabel}
        userKeys == labelled \cap ids
    IN IF userKeys # {}
       THEN d[CHOOSE k \in userKeys : \A j \in userKeys : k <= j]
       ELSE d[CHOOSE k \in labelled : TRUE]

\* the command run_user_menu_loop picks for a choice in 1..len(dispatcher);
\* crashed stands for the IndexError of sorted_dispatcher[user_choice - 1]
selected_command(utbl, user_choice) ==
    LET d == get_user_command_dispatcher(utbl)
        sorted == sorted_dispatcher(d)
    IN IF user_choice = Len(sorted) + 1
       THEN [crashed |-> FALSE, cmd |-> FirstCreateLabelled(d, utbl)]
       ELSE IF user_choice <= Len(sorted)
       THEN [crashed |-> FALSE, cmd |-> d[sorted[user_choice]]]
       ELSE [crashed |-> TRUE, cmd |-> d[CHOOSE k \in DOMAIN d : TRUE]]

UserChoices(utbl) == 1..Cardinality(DOMAIN get_user_command_dispatcher(utbl))

-----------------------------------------------------------------------------
(* Inputs of a command and the observation of the last command *)

NoInputs == Inputs("", NoReply, "", "No", FALSE)

\* the menu codes whose handlers prompt for a title
TitleHandlers == {"handle_add_movie", "handle_delete_movie", "handle_update_movie"}

\* the reply is one of the failures handle_add_movie gives up on: an
\* exception, a status other than 200, "not found", a rating or year that is
\* absent or does not parse, an absent id or country, an absent poster
EnrichmentFails(reply) ==
    \/ reply.raises
    \/ reply.status_code # 200
    \/ DictGet(reply.data, "Response") = "False"
    \/ ~ParseFloat(DictGet(reply.data, "imdbRating")).ok
    \/ ~ParseInt(DictGet(reply.data, "Year")).ok
    \/ "imdbID" \notin DOMAIN reply.data
    \/ "Country" \notin DOMAIN reply.data
    \/ "Poster" \notin DOMAIN reply.data

\* a call that returned None
NoResult == "<None>"

\* what is kept of a command once it has returned
Observed(call, code, handler, msgs, ret, user_id, title, note, is_favorite, io_fails, enrich_failed) ==
    [call |-> call, code |-> code, handler |-> handler, msgs |-> msgs,
     ret |-> ret, user_id |-> user_id, title |-> title, note |-> note,
     is_favorite |-> is_favorite, io_fails |-> io_fails,
     enrich_failed |-> enrich_failed, read_fails |-> FALSE,
     refresh_fails |-> FALSE, raised |-> FALSE,
     result |-> NoResult, returned |-> "none", args |-> <<>>]

\* no menu code
NoCode == 0 - 99

Nothing == Observed("none", NoCode, "none", {}, FALSE, NoUserId, "", "", 0,
                    FALSE, FALSE)

\* the observation of execute_operation(code, ...) run on inputs inp
ObserveCommand(call, code, r, inp) ==
    [Observed(call, code, r.handler, r.msgs, r.ret, active_user_id,
              get_colored_input(inp.raw_title),
              get_colored_input(inp.raw_note),
              ToInt(inp.answer = "Yes"),
              inp.io_fails,
              inp.reply # NoReply /\ EnrichmentFails(inp.reply))
       EXCEPT !.read_fails = inp.read_fails,
              !.refresh_fails = inp.refresh_fails, !.raised = r.raises]

Snapshot == [movies |-> movies, movie_dict |-> movie_dict,
             active_user |-> active_user, active_user_id |-> active_user_id,
             users |-> users]

\* the state after construction: both tables created and empty, no session
InitState ==
    /\ users = {}
    /\ user_seq = 0
    /\ movies = {}
    /\ active_user = NoUserName
    /\ active_user_id = NoUserId
    /\ movie_dict = <<>>
    /\ last = Nothing
    /\ before = [movies |-> {}, movie_dict |-> <<>>,
                 active_user |-> NoUserName, active_user_id |-> NoUserId,
                 users |-> {}]

\* add: a title, the reply of OMDb to it, and whether the disk refuses the
\* INSERT (the INSERT is reached only with a reply that passes every check)
AddInputs ==
    UNION {{Inputs(raw, reply, "", "No", io_fails) :
                reply \in OmdbReplies(get_colored_input(raw)),
                io_fails \in {FALSE}}
           \cup {Inputs(raw, reply, "", "No", TRUE) :
                    reply \in GoodReplies(get_colored_input(raw))} :
           raw \in RawTitles}

\* add with a reply that passes every check, on a database whose SELECT (the
\* refresh) fails; the INSERT before it goes through or fails as well
AddInputsUnreadable ==
    UNION {{WithReadFailure(Inputs(raw, reply, "", "No", io_fails)) :
                reply \in GoodReplies(get_colored_input(raw)),
                io_fails \in BOOLEAN} :
           raw \in RawTitles}

\* delete: nothing is prompted when the user has no movies
DeleteInputs(tbl, uid) ==
    IF DOMAIN list_movies(tbl, uid) = {}
    THEN {NoInputs}
    ELSE {Inputs(raw, NoReply, "", "No", io_fails) :
            raw \in RawTitles, io_fails \in BOOLEAN}

\* update: nothing is prompted when the user has no movies; find_movie
\* returns only for a title of the user
UpdateInputsFor(tbl, uid) ==
    IF DOMAIN list_movies(tbl, uid) = {}
    THEN {NoInputs}
    ELSE UNION {{Inputs(raw, NoReply, u[1], u[2], io_fails),
                 WithRefreshFailure(Inputs(raw, NoReply, u[1], u[2], io_fails))} :
            raw \in {x \in RawTitles : find_movie_accepts(list_movies(tbl, uid), x)},
            u \in UpdateInputs, io_fails \in BOOLEAN}

\* what the handler of a menu code can be fed in the current state
CommandInputs(code) ==
    CASE code = 1 -> {NoInputs, WithReadFailure(NoInputs)}
      [] code = 2 -> AddInputs \cup AddInputsUnreadable
      [] code = 3 -> DeleteInputs(movies, active_user_id)
                        \cup {WithReadFailure(NoInputs)}
      [] code = 4 -> UpdateInputsFor(movies, active_user_id)
                        \cup {WithReadFailure(NoInputs)}
      [] OTHER -> {NoInputs}

-----------------------------------------------------------------------------
(* main(): user menu, load of the collection, movie menu *)

Init == InitState /\ pc = "user_menu"

\* run_user_menu_loop, one round choosing "Create new user": the loop goes on;
\* max_seq caps the ids handed out
UserMenuCreateBelow(max_seq) ==
    /\ pc = "user_menu"
    /\ user_seq < max_seq
    /\ \E user_choice \in UserChoices(users), username \in Usernames,
          io_fails \in BOOLEAN :
         \E sel \in {selected_command(users, user_choice)} :
            /\ ~sel.crashed
            /\ sel.cmd.handler = "handle_create_user"
            /\ \E c \in {create_user_if_not_exists(users, user_seq, username)} :
                 /\ users' = IF io_fails THEN users ELSE c.users
                 /\ user_seq' = IF io_fails THEN user_seq ELSE c.seq
            \* the INSERT is not guarded by any try block
            /\ pc' = IF io_fails THEN "crashed" ELSE pc
            /\ last' = [Observed("user_menu", user_choice, sel.cmd.handler,
                                  IF io_fails THEN {} ELSE {"UserCreated"}, FALSE,
                                  NoUserId, username, "", 0, io_fails, FALSE)
                          EXCEPT !.raised = io_fails]
    /\ before' = Snapshot
    /\ UNCHANGED <<movies, active_user, active_user_id, movie_dict>>

UserMenuCreate == UserMenuCreateBelow(MaxUserSeq)

\* run_user_menu_loop, one round in which list_users() raises: nothing
\* catches the exception
UserMenuReadFails ==
    /\ pc = "user_menu"
    /\ pc' = "crashed"
    /\ last' = [Observed("user_menu", NoCode, "none", {}, FALSE, NoUserId, "", "",
                          0, FALSE, FALSE)
                  EXCEPT !.read_fails = TRUE, !.raised = TRUE]
    /\ before' = Snapshot
    /\ UNCHANGED <<users, user_seq, movies, active_user, active_user_id, movie_dict>>

\* run_user_menu_loop, one round choosing a user: the loop ends
UserMenuSelect ==
    /\ pc = "user_menu"
    /\ \E user_choice \in UserChoices(users) :
         \E sel \in {selected_command(users, user_choice)} :
            /\ ~sel.crashed
            /\ sel.cmd.handler = "handle_select_user"
            /\ \E s \in {handle_select_user(list_users(users), sel.cmd.args)} :
                 /\ active_user' = s.active_user
                 /\ active_user_id' = s.active_user_id
            /\ last' = Observed("user_menu", user_choice, sel.cmd.handler,
                                {"UserSelected"}, TRUE, sel.cmd.args, "", "", 0,
                                FALSE, FALSE)
    /\ pc' = "load"
    /\ before' = Snapshot
    /\ UNCHANGED <<users, user_seq, movies, movie_dict>>

\* a main() that keeps the collection of the previous user
MainLoadStale ==
    /\ pc = "load"
    /\ \E read_fails \in BOOLEAN :
         /\ movie_dict' = movie_dict
         /\ pc' = IF read_fails THEN "crashed" ELSE "movie_menu"
         /\ last' = [Observed("load", NoCode, "none", {}, FALSE, active_user_id,
                               "", "", 0, FALSE, FALSE)
                       EXCEPT !.read_fails = read_fails, !.raised = read_fails]
    /\ before' = Snapshot
    /\ UNCHANGED <<users, user_seq, movies, active_user, active_user_id>>

\* main(): movie_dict = storage_sql.list_movies(get_active_user_id())
MainLoad ==
    /\ pc = "load"
    /\ \E read_fails \in BOOLEAN :
         /\ movie_dict' = IF read_fails THEN movie_dict
                          ELSE list_movies(movies, active_user_id)
         /\ pc' = IF read_fails THEN "crashed" ELSE "movie_menu"
         /\ last' = [Observed("load", NoCode, "none", {}, FALSE, active_user_id,
                               "", "", 0, FALSE, FALSE)
                       EXCEPT !.read_fails = read_fails, !.raised = read_fails]
    /\ before' = Snapshot
    /\ UNCHANGED <<users, user_seq, movies, active_user, active_user_id>>

\* run_movie_menu_loop, one round: execute_operation on the chosen code, then
\* leave the loop when no user is active any more
MovieMenuRound(code, inp) ==
    \E r \in {execute_operation(code, movies, movie_dict,
                                Session(active_user, active_user_id),
                                MOVIE_COMMAND_DISPATCHER, inp)} :
        /\ movies' = r.tbl
        /\ movie_dict' = r.dict
        /\ active_user' = r.session.active_user
        /\ active_user_id' = r.session.active_user_id
        /\ pc' = IF r.raises THEN "crashed"
                 ELSE IF r.exits THEN "terminated"
                 ELSE IF r.session.active_user_id = NoUserId THEN "user_menu"
                 ELSE "movie_menu"
        /\ last' = ObserveCommand("movie_menu", code, r, inp)
        /\ before' = Snapshot
        /\ UNCHANGED <<users, user_seq>>

\* get_input_by_type_and_range(prompt, int, start_range, end_range) accepts
\* an integer entry iff it lies in the range, both ends included
InRange(entry, start_range, end_range) ==
    start_range <= entry /\ entry <= end_range

\* the integers entered at the command prompt
MenuEntries == (MENU_MIN_INDEX - 1)..(MENU_MAX_INDEX + 1)

\* an entry out of range: the prompt prints its error and asks again
CmdRejected ==
    /\ pc = "movie_menu"
    /\ \E entry \in MenuEntries :
         /\ ~InRange(entry, MENU_MIN_INDEX, MENU_MAX_INDEX)
         /\ last' = Observed("movie_menu_prompt", entry, "none", {"OutOfRange"},
                             FALSE, active_user_id, "", "", 0, FALSE, FALSE)
    /\ before' = Snapshot
    /\ UNCHANGED <<users, user_seq, movies, active_user, active_user_id,
                   movie_dict, pc>>

CmdQuit ==
    /\ pc = "movie_menu"
    /\ MovieMenuRound(0, NoInputs)

\* list movies; the SELECT of handle_show_movies may fail, and nothing
\* catches the exception
CmdShow ==
    /\ pc = "movie_menu"
    /\ \E inp \in CommandInputs(1) : MovieMenuRound(1, inp)

CmdAdd ==
    /\ pc = "movie_menu"
    /\ \E inp \in CommandInputs(2) : MovieMenuRound(2, inp)

CmdDelete ==
    /\ pc = "movie_menu"
    /\ \E inp \in CommandInputs(3) : MovieMenuRound(3, inp)

CmdUpdate ==
    /\ pc = "movie_menu"
    /\ \E inp \in CommandInputs(4) : MovieMenuRound(4, inp)

\* statistics, random, search, sort, histogram, filter
CmdAnalyse ==
    /\ pc = "movie_menu"
    /\ \E code \in 5..10 : MovieMenuRound(code, NoInputs)

CmdWebsite ==
    /\ pc = "movie_menu"
    /\ MovieMenuRound(11, NoInputs)

CmdSwitchUser ==
    /\ pc = "movie_menu"
    /\ MovieMenuRound(12, NoInputs)

Next ==
    \/ UserMenuCreate
    \/ UserMenuReadFails
    \/ UserMenuSelect
    \/ MainLoad
    \/ CmdRejected
    \/ CmdQuit
    \/ CmdShow
    \/ CmdAdd
    \/ CmdDelete
    \/ CmdUpdate
    \/ CmdAnalyse
    \/ CmdWebsite
    \/ CmdSwitchUser

Spec == Init /\ [][Next]_vars

-----------------------------------------------------------------------------
(* The dispatcher and the handlers called directly: any code, any session,  *)
(* a collection that was loaded for whoever was active at the time           *)

InitAPI == InitState /\ pc = "api"

\* the usernames the registry is called with
ApiUsernames == {"ann", "Bob"}

\* storage_sql.create_user_if_not_exists(username)
ApiCreateUser ==
    /\ pc = "api"
    /\ user_seq < MaxUserSeq
    /\ \E username \in ApiUsernames :
         \E c \in {create_user_if_not_exists(users, user_seq, username)} :
            /\ users' = c.users
            /\ user_seq' = c.seq
            /\ last' = Observed("create_user_if_not_exists", NoCode, "none", {},
                                FALSE, NoUserId, username, "", 0, FALSE, FALSE)
    /\ before' = Snapshot
    /\ UNCHANGED <<movies, active_user, active_user_id, movie_dict, pc>>

\* handle_select_user(None, list_users(), user_id)
ApiSelectUser ==
    /\ pc = "api"
    /\ \E user_id \in DOMAIN list_users(users) :
         \E s \in {handle_select_user(list_users(users), user_id)} :
            /\ active_user' = s.active_user
            /\ active_user_id' = s.active_user_id
            /\ last' = Observed("handle_select_user", NoCode, "handle_select_user",
                                {"UserSelected"}, TRUE, user_id, "", "", 0,
                                FALSE, FALSE)
    /\ before' = Snapshot
    /\ UNCHANGED <<users, user_seq, movies, movie_dict, pc>>

\* movie_dict = storage_sql.list_movies(get_active_user_id())
ApiLoad ==
    /\ pc = "api"
    /\ movie_dict' = list_movies(movies, active_user_id)
    /\ last' = Observed("list_movies", NoCode, "none", {}, FALSE, active_user_id,
                        "", "", 0, FALSE, FALSE)
    /\ before' = Snapshot
    /\ UNCHANGED <<users, user_seq, movies, active_user, active_user_id, pc>>

\* the codes execute_operation is called with: the table's and one beyond
\* either end
ApiCodes == (MENU_MIN_INDEX - 1)..(MENU_MAX_INDEX + 1)

\* the inputs of the main flow, and for add also the out-of-range replies
ApiCommandInputs(code) ==
    CommandInputs(code)
    \cup IF code = 2
         THEN UNION {{Inputs(raw, reply, "", "No", FALSE) :
                         reply \in OutOfRangeReplies(get_colored_input(raw))} :
                     raw \in RawTitles}
         ELSE {}

\* execute_operation(code, movie_dict, MOVIE_COMMAND_DISPATCHER)
ApiExecuteOperation ==
    /\ pc = "api"
    /\ \E code \in ApiCodes :
       \E inp \in ApiCommandInputs(code) :
         \E r \in {execute_operation(code, movies, movie_dict,
                                     Session(active_user, active_user_id),
                                     MOVIE_COMMAND_DISPATCHER, inp)} :
            /\ movies' = r.tbl
            /\ movie_dict' = r.dict
            /\ active_user' = r.session.active_user
            /\ active_user_id' = r.session.active_user_id
            /\ last' = ObserveCommand("execute_operation", code, r, inp)
    /\ before' = Snapshot
    /\ UNCHANGED <<users, user_seq, pc>>

NextAPI ==
    \/ ApiCreateUser
    \/ ApiSelectUser
    \/ ApiLoad
    \/ ApiExecuteOperation

SpecAPI == InitAPI /\ [][NextAPI]_vars

-----------------------------------------------------------------------------
(* The record store called directly: movie/storage_sql.py *)

InitStore == InitState /\ pc = "store"

\* the user_id arguments: None and two ids (the schema has no foreign key)
StoreUserIds == {NoUserId, 1, 2}

\* the attributes dict passed with a title
StoreAttributes(title) ==
    IF title = "Dune"
    THEN [rating |-> 80, year |-> 2021, poster_url |-> "dune.jpg",
          imdb_id |-> "tt1160419", country |-> "United States, Canada"]
    ELSE [rating |-> 83, year |-> 1995, poster_url |-> "N/A",
          imdb_id |-> "tt0113277", country |-> "United States"]

\* the (note, is_favorite) arguments of update_movie: what handle_update_movie
\* makes of the typed note and answer
StoreUpdates ==
    {<<get_colored_input(u[1]), ToInt(u[2] = "Yes")>> : u \in UpdateInputs}

\* storage_sql.add_movie(user_id, title, attributes)
StoreAddMovie ==
    /\ pc = "store"
    /\ \E user_id \in StoreUserIds, title \in Titles, io_fails \in BOOLEAN :
         \E r \in {add_movie(movies, user_id, title, StoreAttributes(title), io_fails)} :
            /\ movies' = r.tbl
            /\ last' = Observed("add_movie", NoCode, "none", r.msgs, FALSE,
                                user_id, title, "", 0, io_fails, FALSE)
    /\ before' = Snapshot
    /\ UNCHANGED <<users, user_seq, active_user, active_user_id, movie_dict, pc>>

\* storage_sql.delete_movie(user_id, title)
StoreDeleteMovie ==
    /\ pc = "store"
    /\ \E user_id \in StoreUserIds, title \in Titles, io_fails \in BOOLEAN :
         \E r \in {delete_movie(movies, user_id, title, io_fails)} :
            /\ movies' = r.tbl
            /\ last' = Observed("delete_movie", NoCode, "none", r.msgs, FALSE,
                                user_id, title, "", 0, io_fails, FALSE)
    /\ before' = Snapshot
    /\ UNCHANGED <<users, user_seq, active_user, active_user_id, movie_dict, pc>>

\* storage_sql.update_movie(user_id, title, note, is_favorite)
StoreUpdateMovie ==
    /\ pc = "store"
    /\ \E user_id \in StoreUserIds, title \in Titles, u \in StoreUpdates,
          io_fails \in BOOLEAN :
         \E r \in {update_movie(movies, user_id, title, u[1], u[2], io_fails)} :
            /\ movies' = r.tbl
            /\ last' = Observed("update_movie", NoCode, "none", r.msgs, FALSE,
                                user_id, title, u[1], u[2], io_fails, FALSE)
    /\ before' = Snapshot
    /\ UNCHANGED <<users, user_seq, active_user, active_user_id, movie_dict, pc>>

NextStore ==
    \/ StoreAddMovie
    \/ StoreDeleteMovie
    \/ StoreUpdateMovie

SpecStore == InitStore /\ [][NextStore]_vars

-----------------------------------------------------------------------------
(* Analysis: analysis.py.  A rating r is kept as 10 * r, a median m as       *)
(* 20 * m, so that the mean of two ratings stays an integer.                 *)

\* the titles and ratings of the collections the functions are applied to
AnalysisTitles == {"Alien", "Brazil", "Casino", "Dune"}

AnalysisRatings == {70, 80, 83}

\* the release year of each title
AnalysisYear == [t \in AnalysisTitles |->
                   IF t = "Alien" THEN 1979 ELSE IF t = "Brazil" THEN 1985
                   ELSE IF t = "Casino" THEN 1995 ELSE 1984]

\* a record as list_movies returns it
AnalysisDetails(title, rating) ==
    [year |-> AnalysisYear[title], rating |-> rating, note |-> "",
     poster_url |-> "N/A", imdb_id |-> "tt0000000", country |-> "",
     is_favorite |-> FALSE]

\* every collection over these titles, the empty one included
AnalysisCollections ==
    UNION {{[t \in S |-> AnalysisDetails(t, f[t])] : f \in [S -> AnalysisRatings]} :
           S \in SUBSET AnalysisTitles}

\* list(details["rating"] for details in movie_dict.values())
RECURSIVE RatingList(_, _)
RatingList(dict, titles) ==
    IF titles = {}
    THEN <<>>
    ELSE LET t == CHOOSE x \in titles : TRUE
         IN <<dict[t].rating>> \o RatingList(dict, titles \ {t})

\* insertion of x into an ascending list
RECURSIVE InsertSorted(_, _)
InsertSorted(x, seq) ==
    IF seq = <<>> THEN <<x>>
    ELSE IF x <= Head(seq) THEN <<x>> \o seq
    ELSE <<Head(seq)>> \o InsertSorted(x, Tail(seq))

\* sorted(list)
RECURSIVE Sorted(_)
Sorted(seq) ==
    IF seq = <<>> THEN <<>> ELSE InsertSorted(Head(seq), Sorted(Tail(seq)))

\* what an analysis function returns and prints
Computed(result, msgs) == [result |-> result, msgs |-> msgs, returned |-> "value"]

\* an analysis function that prints and returns None
NoValue(msgs) == [result |-> NoResult, msgs |-> msgs, returned |-> "none"]

\* an analysis function that ends in an uncaught exception
Raised(error) == [result |-> NoResult, msgs |-> {}, returned |-> error]

\* sum(values) over the items of a collection
RECURSIVE SumOf(_, _, _)
SumOf(dict, titles, attribute) ==
    IF titles = {}
    THEN 0
    ELSE LET t == CHOOSE x \in titles : TRUE
         IN dict[t][attribute] + SumOf(dict, titles \ {t}, attribute)

\* get_sum
get_sum(dict, attribute) ==
    IF DOMAIN dict = {}
    THEN NoValue({"NoMovies"})
    ELSE Computed(SumOf(dict, DOMAIN dict, attribute), {})

\* a quotient a / b, kept as the pair of its terms
Quotient(a, b) == [num |-> a, den |-> b]

\* get_calculated_average_rate of analysis.py
get_calculated_average_rate(dict) ==
    IF DOMAIN dict = {}
    THEN NoValue({"NoMovies"})
    ELSE Computed(Quotient(get_sum(dict, "rating").result,
                           Cardinality(DOMAIN dict)), {})

\* get_calculated_average_rate of statistics.py, on a title -> rating
\* mapping: the quotient is taken whatever the length
statistics_get_calculated_average_rate(ratings) ==
    LET movies_in_database == Cardinality(DOMAIN ratings)
        rating_sum == SumOf([t \in DOMAIN ratings |-> [rating |-> ratings[t]]],
                            DOMAIN ratings, "rating")
    IN IF movies_in_database = 0
       THEN Raised("ZeroDivisionError")
       ELSE Computed(Quotient(rating_sum, movies_in_database), {})

\* a median that takes the lower of the two central values
get_calculated_median_rate_lower(dict) ==
    IF DOMAIN dict = {}
    THEN NoValue({"NoMovies"})
    ELSE LET sorted_rate_list == Sorted(RatingList(dict, DOMAIN dict))
             movies_in_database == Cardinality(DOMAIN dict)
         IN Computed(2 * sorted_rate_list[(movies_in_database + 1) \div 2], {})

\* get_calculated_median_rate; Python indexes from 0, a sequence from 1
get_calculated_median_rate(dict) ==
    IF DOMAIN dict = {}
    THEN NoValue({"NoMovies"})
    ELSE LET sorted_rate_list == Sorted(RatingList(dict, DOMAIN dict))
             movies_in_database == Cardinality(DOMAIN dict)
             middle_index == movies_in_database \div 2
             left_middle_index == movies_in_database \div 2 - 1
             right_middle_index == movies_in_database \div 2
         IN IF movies_in_database % 2 = 1
            THEN Computed(2 * sorted_rate_list[middle_index + 1], {})
            ELSE Computed(sorted_rate_list[left_middle_index + 1]
                            + sorted_rate_list[right_middle_index + 1], {})

\* max(ratings), min(ratings)
MaxOf(S) == CHOOSE x \in S : \A y \in S : y <= x

MinOf(S) == CHOOSE x \in S : \A y \in S : x <= y

\* an extremes function that returns a single record
get_all_movies_extremes_one(dict, mode) ==
    IF DOMAIN dict = {}
    THEN NoValue({"NoMovies"})
    ELSE LET ratings == {dict[t].rating : t \in DOMAIN dict}
             extreme_rating == IF mode = "best" THEN MaxOf(ratings) ELSE MinOf(ratings)
             title == CHOOSE t \in DOMAIN dict :
                          dict[t].rating = extreme_rating
         IN IF mode \notin {"best", "worst"}
            THEN NoValue({"BadMode"})
            ELSE Computed([t \in {title} |-> dict[t]], {})

\* an extremes function that reads every mode other than best as worst
get_all_movies_extremes_lenient(dict, mode) ==
    IF DOMAIN dict = {}
    THEN NoValue({"NoMovies"})
    ELSE LET ratings == {dict[t].rating : t \in DOMAIN dict}
             extreme_rating == IF mode = "best" THEN MaxOf(ratings) ELSE MinOf(ratings)
         IN Computed([t \in {x \in DOMAIN dict : dict[x].rating = extreme_rating}
                        |-> dict[t]], {})

\* get_all_movies_extremes_by_mode
get_all_movies_extremes_by_mode(dict, mode) ==
    IF DOMAIN dict = {}
    THEN NoValue({"NoMovies"})
    ELSE LET ratings == {dict[t].rating : t \in DOMAIN dict}
             extreme_rating == IF mode = "best" THEN MaxOf(ratings) ELSE MinOf(ratings)
         IN IF mode \notin {"best", "worst"}
            THEN NoValue({"BadMode"})
            ELSE Computed([t \in {x \in DOMAIN dict :
                                    dict[x].rating = extreme_rating}
                             |-> dict[t]], {})

\* every enumeration order of the items of a collection
Orders(dict) ==
    {order \in [1..Cardinality(DOMAIN dict) -> DOMAIN dict] :
        \A i, j \in DOMAIN order : i # j => order[i] # order[j]}

\* list(movie_dict.items()) for an enumeration order
Items(dict, order) == [i \in DOMAIN order |-> <<order[i], dict[order[i]]>>]

\* a draw that leaves the upper end out
randint_exclusive(a, b) == a..(b - 1)

\* Random().randint(a, b): any integer from a to b, both included
randint(a, b) == a..b

\* the indexes get_random_movie draws from
random_indexes(movies_as_list) ==
    IF Len(movies_as_list) >= 1 THEN randint(0, Len(movies_as_list) - 1) ELSE {0}

\* get_random_movie, with the enumeration of the items and the index drawn
get_random_movie(movies_as_list, random_index) ==
    IF Len(movies_as_list) = 0
    THEN NoValue({"NoMovies"})
    ELSE LET title == movies_as_list[random_index + 1][1]
             details == movies_as_list[random_index + 1][2]
         IN Computed([t \in {title} |-> details], {})

\* what a function that only prints has shown, and its None return
Printed(result, msgs) == [result |-> result, msgs |-> msgs, returned |-> "none"]

\* a filter whose rating bound is exclusive
filter_movies_by_attributes_exclusive(dict, min_rating, start_year, end_year) ==
    IF DOMAIN dict = {}
    THEN NoValue({"NoMoviesToFilter"})
    ELSE LET filtered_movies ==
                 [t \in {x \in DOMAIN dict :
                           /\ dict[x].rating > min_rating
                           /\ start_year <= dict[x].year
                           /\ dict[x].year <= end_year} |-> dict[t]]
         IN IF DOMAIN filtered_movies = {}
            THEN Printed(filtered_movies, {"NoMatch"})
            ELSE Printed(filtered_movies, {"Filtered"})

\* filter_movies_by_attributes: the selection is printed, None is returned
filter_movies_by_attributes(dict, min_rating, start_year, end_year) ==
    IF DOMAIN dict = {}
    THEN NoValue({"NoMoviesToFilter"})
    ELSE LET filtered_movies ==
                 [t \in {x \in DOMAIN dict :
                           /\ dict[x].rating >= min_rating
                           /\ start_year <= dict[x].year
                           /\ dict[x].year <= end_year} |-> dict[t]]
         IN IF DOMAIN filtered_movies = {}
            THEN Printed(filtered_movies, {"NoMatch"})
            ELSE Printed(filtered_movies, {"Filtered"})

\* the bounds the filter is called with: <<min_rating, start_year, end_year>>
FilterBounds == {70, 80, 90} \X {1979, 1985} \X {1984, 1995}

\* list.reverse()
Reversed(seq) == [i \in 1..Len(seq) |-> seq[Len(seq) + 1 - i]]

\* x placed behind every item whose key is not greater than its own
RECURSIVE InsertItem(_, _, _)
InsertItem(x, seq, attribute) ==
    IF seq = <<>> THEN <<x>>
    ELSE IF x[2][attribute] < Head(seq)[2][attribute] THEN <<x>> \o seq
    ELSE <<Head(seq)>> \o InsertItem(x, Tail(seq), attribute)

\* the stable ascending sort of items by details[attribute]
RECURSIVE StableSort(_, _)
StableSort(seq, attribute) ==
    IF seq = <<>>
    THEN <<>>
    ELSE InsertItem(seq[Len(seq)],
                    StableSort(SubSeq(seq, 1, Len(seq) - 1), attribute),
                    attribute)

\* sorted(items, key, reverse): with reverse the list is reversed, sorted
\* and reversed again, which keeps equal keys in their input order
SortedBy(items, attribute, reverse) ==
    IF reverse
    THEN Reversed(StableSort(Reversed(items), attribute))
    ELSE StableSort(items, attribute)

\* a descending sort that reverses the ascending result
get_movies_sorted_reversing(items, attribute, descending) ==
    IF Len(items) = 0
    THEN NoValue({"NoMoviesToSort"})
    ELSE Computed(IF descending
                  THEN Reversed(StableSort(items, attribute))
                  ELSE StableSort(items, attribute), {})

\* get_movies_sorted_by_attribute, on the items of movie_dict in their order;
\* the dict it returns keeps the order of the sorted items
get_movies_sorted_by_attribute(items, attribute, descending) ==
    IF Len(items) = 0
    THEN NoValue({"NoMoviesToSort"})
    ELSE Computed(SortedBy(items, attribute, descending), {})

\* one function is applied to a collection drawn at the start
InitAnalysis ==
    /\ users = {}
    /\ user_seq = 0
    /\ movies = {}
    /\ active_user = NoUserName
    /\ active_user_id = NoUserId
    /\ movie_dict \in AnalysisCollections
    /\ last = Nothing
    /\ before = [movies |-> {}, movie_dict |-> <<>>,
                 active_user |-> NoUserName, active_user_id |-> NoUserId,
                 users |-> {}]
    /\ pc = "analysis"

\* the observation of an analysis call with text argument arg
ObserveComputed(call, arg, r) ==
    [Observed(call, NoCode, "none", r.msgs, FALSE, NoUserId, arg, "", 0,
              FALSE, FALSE)
       EXCEPT !.result = r.result, !.returned = r.returned]

AnalysisMedian ==
    /\ pc = "analysis"
    /\ last' = ObserveComputed("get_calculated_median_rate", "",
                               get_calculated_median_rate(movie_dict))
    /\ before' = Snapshot
    /\ pc' = "analysed"
    /\ UNCHANGED <<users, user_seq, movies, active_user, active_user_id,
                   movie_dict>>

AnalysisExtremes ==
    /\ pc = "analysis"
    /\ \E mode \in {"best", "worst", "top"} :
         last' = ObserveComputed("get_all_movies_extremes_by_mode", mode,
                                 get_all_movies_extremes_by_mode(movie_dict, mode))
    /\ before' = Snapshot
    /\ pc' = "analysed"
    /\ UNCHANGED <<users, user_seq, movies, active_user, active_user_id,
                   movie_dict>>

AnalysisAverage ==
    /\ pc = "analysis"
    /\ last' = ObserveComputed("get_calculated_average_rate", "",
                               get_calculated_average_rate(movie_dict))
    /\ before' = Snapshot
    /\ pc' = "analysed"
    /\ UNCHANGED <<users, user_seq, movies, active_user, active_user_id,
                   movie_dict>>

StatisticsAverage ==
    /\ pc = "analysis"
    /\ last' = ObserveComputed("statistics.get_calculated_average_rate", "",
                   statistics_get_calculated_average_rate(
                       [t \in DOMAIN movie_dict |-> movie_dict[t].rating]))
    /\ before' = Snapshot
    /\ pc' = "analysed"
    /\ UNCHANGED <<users, user_seq, movies, active_user, active_user_id,
                   movie_dict>>

AnalysisRandom ==
    /\ pc = "analysis"
    /\ \E order \in Orders(movie_dict) :
         \E random_index \in random_indexes(Items(movie_dict, order)) :
           last' = [ObserveComputed("get_random_movie", "",
                       get_random_movie(Items(movie_dict, order), random_index))
                      EXCEPT !.args = <<random_index>>]
    /\ before' = Snapshot
    /\ pc' = "analysed"
    /\ UNCHANGED <<users, user_seq, movies, active_user, active_user_id,
                   movie_dict>>

AnalysisFilter ==
    /\ pc = "analysis"
    /\ \E b \in FilterBounds :
         last' = [ObserveComputed("filter_movies_by_attributes", "",
                     filter_movies_by_attributes(movie_dict, b[1], b[2], b[3]))
                    EXCEPT !.args = b]
    /\ before' = Snapshot
    /\ pc' = "analysed"
    /\ UNCHANGED <<users, user_seq, movies, active_user, active_user_id,
                   movie_dict>>

AnalysisSort ==
    /\ pc = "analysis"
    /\ \E order \in Orders(movie_dict), attribute \in {"rating", "year"},
          descending \in BOOLEAN :
         last' = [ObserveComputed("get_movies_sorted_by_attribute", "",
                     get_movies_sorted_by_attribute(Items(movie_dict, order),
                                                    attribute, descending))
                    EXCEPT !.args = <<order, attribute, descending>>]
    /\ before' = Snapshot
    /\ pc' = "analysed"
    /\ UNCHANGED <<users, user_seq, movies, active_user, active_user_id,
                   movie_dict>>

NextAnalysis ==
    \/ AnalysisAverage
    \/ StatisticsAverage
    \/ AnalysisMedian
    \/ AnalysisExtremes
    \/ AnalysisRandom
    \/ AnalysisFilter
    \/ AnalysisSort

SpecAnalysis == InitAnalysis /\ [][NextAnalysis]_vars

-----------------------------------------------------------------------------
(* The user menu followed on its own: users are created, selected and left  *)
(* again, and no movie is stored.                                            *)

UsersCreate == UserMenuCreateBelow(MaxRegistrySeq)

NextUsers ==
    \/ UsersCreate
    \/ UserMenuSelect
    \/ MainLoad
    \/ CmdSwitchUser

SpecUsers == Init /\ [][NextUsers]_vars

-----------------------------------------------------------------------------
(* Properties *)

\* the rows stored under a (user_id, title) key
RowsOf(tbl, user_id, title) == {r \in tbl : r.user_id = user_id /\ r.title = title}

\* the last command was a movie handler that prompted for a title
TitleHandlerRan == last.handler \in TitleHandlers

\* the last command got as far as its INSERT, DELETE or UPDATE
WriteAttempted ==
    \/ /\ last.handler = "handle_add_movie"
       /\ last.title \notin DOMAIN before.movie_dict
       /\ ~last.enrich_failed
    \/ /\ last.handler \in {"handle_delete_movie", "handle_update_movie"}
       /\ ~last.read_fails
       /\ last.title \in DOMAIN list_movies(before.movies, before.active_user_id)

\* C1: in the main flow, whenever a handler has returned to the movie menu,
\* the in-memory collection movie_dict equals list_movies of the active user:
\* same titles, same attribute values.
C1_CollectionEqualsStore ==
    pc = "movie_menu" => movie_dict = list_movies(movies, active_user_id)

\* C2: an add of a title the active user already has stored leaves the table
\* as it was, and the duplicate is reported: by the handler when the title is
\* in its collection, by the store (UNIQUE) when the INSERT is reached.
C2_DuplicateAddAltersNothing ==
    (/\ last.handler = "handle_add_movie"
     /\ last.title \in DOMAIN list_movies(before.movies, before.active_user_id))
    => /\ movies = before.movies
       /\ (last.title \in DOMAIN before.movie_dict
             => "MovieExists" \in last.msgs)
       /\ ((last.title \notin DOMAIN before.movie_dict /\ ~last.enrich_failed)
             => "StoreError" \in last.msgs)

\* a duplicate add that got past the collection and was stopped by the store
C2_Witness ==
    /\ last.handler = "handle_add_movie"
    /\ last.title \in DOMAIN list_movies(before.movies, before.active_user_id)
    /\ last.title \notin DOMAIN before.movie_dict
    /\ ~last.enrich_failed
    /\ ~last.io_fails
    /\ "StoreError" \in last.msgs
    /\ movies = before.movies

\* C3: add, delete or update run with no active user prints NoActiveUser and
\* leaves the movies table identical.
C3_NoActiveUserNoMutation ==
    (TitleHandlerRan /\ before.active_user_id = NoUserId)
    => /\ "NoActiveUser" \in last.msgs
       /\ movies = before.movies

\* an add without active user whose reply passed every check, on a table
\* that has rows
C3_Witness ==
    /\ last.handler = "handle_add_movie"
    /\ before.active_user_id = NoUserId
    /\ ~last.enrich_failed
    /\ ~last.io_fails
    /\ "NoActiveUser" \in last.msgs
    /\ before.movies # {}
    /\ movies = before.movies

\* C4: when the write of an add, delete or update fails, the failure is
\* reported, the store is as before and the in-memory collection is exactly
\* as it was before the command.
C4_FailedWriteNotApplied ==
    (TitleHandlerRan /\ last.io_fails /\ WriteAttempted)
    => /\ "StoreError" \in last.msgs
       /\ movies = before.movies
       /\ movie_dict = before.movie_dict

\* C5: when the enrichment reply of an add is a failure (exception, status
\* other than 200, not found, rating/year/id/country absent or unparsable,
\* poster absent), a message is printed, the handler returns to the menu, and
\* store and collection are unchanged.
C5_EnrichmentFailureChangesNothing ==
    (last.call = "movie_menu" /\ last.handler = "handle_add_movie"
       /\ last.enrich_failed)
    => /\ last.msgs # {}
       /\ pc = "movie_menu"
       /\ movies = before.movies
       /\ movie_dict = before.movie_dict

\* an add given up for a field of the reply, with rows in the table
C5_Witness ==
    /\ last.call = "movie_menu"
    /\ last.handler = "handle_add_movie"
    /\ last.enrich_failed
    /\ "FieldError" \in last.msgs
    /\ before.movies # {}
    /\ movies = before.movies

\* C6: execute_operation with a code that is no key of the table prints the
\* unknown-command error, returns False, runs no handler and leaves the
\* collection, the store and the session as they were.
C6_UnknownCodeChangesNothing ==
    (last.call = "execute_operation"
       /\ last.code \notin DOMAIN MOVIE_COMMAND_DISPATCHER)
    => /\ "UnknownCommand" \in last.msgs
       /\ last.ret = FALSE
       /\ last.handler = "none"
       /\ movies = before.movies
       /\ movie_dict = before.movie_dict
       /\ active_user = before.active_user
       /\ active_user_id = before.active_user_id

\* an unknown code sent while a user is active and has a collection
C6_Witness ==
    /\ last.call = "execute_operation"
    /\ last.code = MENU_MAX_INDEX + 1
    /\ "UnknownCommand" \in last.msgs
    /\ active_user_id # NoUserId
    /\ DOMAIN movie_dict # {}
    /\ movies # {}

\* C7: a code of COMMANDS_REQUIRING_MOVIES dispatched with an empty collection
\* reports EmptyCollection and runs no handler; any other code runs its
\* handler even then.
C7_EmptyCollectionGuard ==
    (last.call = "movie_menu" /\ DOMAIN before.movie_dict = {})
    => IF last.code \in COMMANDS_REQUIRING_MOVIES
       THEN "EmptyCollection" \in last.msgs /\ last.handler = "none"
       ELSE last.handler = MOVIE_COMMAND_DISPATCHER[last.code]

\* C8: delete_movie of a title the user does not have reports NotFound and
\* leaves the table unchanged; of a title the user has, it removes exactly
\* that row and list_movies no longer contains the title.
C8_DeleteReportsNotFound ==
    (last.call = "delete_movie" /\ ~last.io_fails)
    => IF RowsOf(before.movies, last.user_id, last.title) = {}
       THEN "NotFound" \in last.msgs /\ movies = before.movies
       ELSE /\ movies = before.movies \ RowsOf(before.movies, last.user_id, last.title)
            /\ last.title \notin DOMAIN list_movies(movies, last.user_id)

\* C9: update_movie on an existing record replaces its note and is_favorite
\* by the arguments and nothing else: its other columns and every other row
\* (the same title of another user included) are unchanged.
C9_UpdateChangesOnlyNoteAndFavorite ==
    (/\ last.call = "update_movie"
     /\ ~last.io_fails
     /\ RowsOf(before.movies, last.user_id, last.title) # {})
    => /\ \A r \in before.movies :
            (r.user_id # last.user_id \/ r.title # last.title) => r \in movies
       /\ \A r \in movies :
            (r.user_id # last.user_id \/ r.title # last.title) => r \in before.movies
       /\ \A o \in RowsOf(before.movies, last.user_id, last.title) :
            RowsOf(movies, last.user_id, last.title)
              = {[o EXCEPT !.note = last.note, !.is_favorite = last.is_favorite]}

\* an update that changed a record while another user holds the same title
C9_Witness ==
    /\ last.call = "update_movie"
    /\ ~last.io_fails
    /\ RowsOf(before.movies, last.user_id, last.title) # {}
    /\ movies # before.movies
    /\ \E r \in movies : r.title = last.title /\ r.user_id # last.user_id

\* C10: after a successful add_movie(u, t, a) of a title u did not have,
\* list_movies(u) has t with the year, rating, poster_url, imdb_id and country
\* of a, note empty and is_favorite false, and every record listed before is
\* listed unchanged.
C10_AddThenListRoundTrip ==
    (/\ last.call = "add_movie"
     /\ "StoreAdded" \in last.msgs
     /\ last.title \notin DOMAIN list_movies(before.movies, last.user_id))
    => LET listed == list_movies(movies, last.user_id)
           listed_before == list_movies(before.movies, last.user_id)
           a == StoreAttributes(last.title)
       IN /\ last.title \in DOMAIN listed
          /\ listed[last.title] =
                [year |-> a.year, rating |-> a.rating, note |-> "",
                 poster_url |-> a.poster_url, imdb_id |-> a.imdb_id,
                 country |-> a.country, is_favorite |-> FALSE]
          /\ \A t \in DOMAIN listed_before :
                t \in DOMAIN listed /\ listed[t] = listed_before[t]

\* a successful add for a user who already had another record
C10_Witness ==
    /\ last.call = "add_movie"
    /\ "StoreAdded" \in last.msgs
    /\ DOMAIN list_movies(before.movies, last.user_id) # {}
    /\ last.title \notin DOMAIN list_movies(before.movies, last.user_id)
    /\ last.title \in DOMAIN list_movies(movies, last.user_id)


\* C11: records are scoped by owner. A call of add_movie, delete_movie or
\* update_movie with user_id A leaves list_movies(B) of every other user B as
\* it was, also when B holds the same title; a title is stored at most once
\* per user, and an add of a title A does not have goes through whoever else
\* holds it; list_movies of a user without records is the empty mapping.
C11_RecordsScopedByOwner ==
    /\ (last.call \in {"add_movie", "delete_movie", "update_movie"})
       => \A B \in StoreUserIds \ {last.user_id} :
            list_movies(movies, B) = list_movies(before.movies, B)
    /\ \A u \in StoreUserIds, t \in Titles : Cardinality(RowsOf(movies, u, t)) <= 1
    /\ (/\ last.call = "add_movie"
        /\ ~last.io_fails
        /\ last.user_id # NoUserId
        /\ RowsOf(before.movies, last.user_id, last.title) = {})
       => /\ "StoreAdded" \in last.msgs
          /\ RowsOf(movies, last.user_id, last.title) # {}
    /\ \A u \in StoreUserIds :
         (\A r \in movies : r.user_id # u) => DOMAIN list_movies(movies, u) = {}

\* user A deleted a title that another user B holds too, and a third id has
\* no records
C11_Witness ==
    /\ last.call = "delete_movie"
    /\ movies # before.movies
    /\ \E r \in movies : r.title = last.title /\ r.user_id # last.user_id
    /\ \E u \in StoreUserIds : DOMAIN list_movies(movies, u) = {}


\* C12: creating a user whose username exists is a no-op success: when the
\* statement runs, the rows of table users are the same set afterwards and
\* the success message is printed; in every reachable state no two rows
\* share a username.
C12_DuplicateUserIsNoOp ==
    /\ (/\ last.handler = "handle_create_user"
        /\ ~last.io_fails
        /\ \E u \in before.users : u.username = last.title)
       => /\ users = before.users
          /\ "UserCreated" \in last.msgs
    /\ \A u1 \in users, u2 \in users : u1.username = u2.username => u1 = u2

\* an existing username was typed at the create prompt
C12_Witness ==
    /\ last.handler = "handle_create_user"
    /\ ~last.io_fails
    /\ \E u \in before.users : u.username = last.title
    /\ users = before.users
    /\ users # {}


\* C13: creating a user with the empty string as username fails with
\* InvalidUsername and adds no row; with a non-empty username creation never
\* fails.
C13_EmptyUsernameRejected ==
    (last.handler = "handle_create_user")
    => IF last.title = ""
       THEN "InvalidUsername" \in last.msgs /\ users = before.users
       ELSE /\ "UserCreated" \in last.msgs
            /\ \E u \in users : u.username = last.title


\* C14: when the switch-user command has completed, no user is active, the
\* movie menu loop has ended and the user menu prompts; in the main flow a
\* movie command is only ever dispatched while a user is active.
C14_SwitchUserReturnsToUserMenu ==
    /\ (last.call = "movie_menu" /\ last.handler = "handle_switch_user")
       => /\ active_user = NoUserName
          /\ active_user_id = NoUserId
          /\ pc = "user_menu"
    /\ last.call = "movie_menu" => before.active_user_id # NoUserId
    /\ pc = "movie_menu" => active_user_id # NoUserId

\* a user with a loaded collection switched
C14_Witness ==
    /\ last.call = "movie_menu"
    /\ last.handler = "handle_switch_user"
    /\ before.active_user_id # NoUserId
    /\ DOMAIN before.movie_dict # {}
    /\ pc = "user_menu"

\* C15: the quit command (code 0) of the movie menu prints the farewell and
\* ends the process through sys.exit(0), changing neither the store nor the
\* collection; once the process has ended no further step is taken.
C15_QuitTerminates ==
    [][/\ pc # "terminated"
       /\ (last'.call = "movie_menu" /\ last'.code = 0)
          => /\ last'.handler = "handle_quit_application"
             /\ "Bye" \in last'.msgs
             /\ pc' = "terminated"
             /\ movies' = movies
             /\ movie_dict' = movie_dict]_vars

\* the process ended by quit, with records in store and collection
C15_Witness ==
    /\ pc = "terminated"
    /\ last.handler = "handle_quit_application"
    /\ movies # {}
    /\ DOMAIN movie_dict # {}

\* C16: the user-selection loop ends as soon as a user has been selected or
\* a new user has been created: after either command the user menu is left.
C16_UserLoopEndsOnSelectOrCreate ==
    (/\ last.call = "user_menu"
     /\ \/ last.handler = "handle_select_user"
        \/ (last.handler = "handle_create_user"
              /\ \E u \in users \ before.users : u.username = last.title))
    => pc # "user_menu"


\* C17: the process ends only through the quit command: whatever goes wrong
\* in a user-menu or movie-menu command (a failing read or write of the
\* store included) is reported and the loop prompts again.
C17_OnlyQuitEndsTheProcess ==
    pc \in {"terminated", "crashed"}
    => (last.call = "movie_menu" /\ last.code = 0)


\* the rating (kept as 10 * value) and year lie in the configured range
InConfiguredRange(rating, year) ==
    /\ 10 * RATING_BASE <= rating
    /\ rating <= 10 * RATING_LIMIT
    /\ FIRST_MOVIE_RELEASE <= year
    /\ year <= CurrentYear

\* C18: every record of the store and of the in-memory collection has
\* RATING_BASE <= rating <= RATING_LIMIT and FIRST_MOVIE_RELEASE <= year <=
\* the current calendar year, whatever the enrichment source returned.
C18_RatingAndYearInRange ==
    /\ \A r \in movies : InConfiguredRange(r.rating, r.year)
    /\ \A t \in DOMAIN movie_dict :
         InConfiguredRange(movie_dict[t].rating, movie_dict[t].year)


\* the k-th smallest rating of a collection, counting equal ratings
KthRating(dict, k) ==
    CHOOSE v \in {dict[t].rating : t \in DOMAIN dict} :
        /\ Cardinality({t \in DOMAIN dict : dict[t].rating < v}) < k
        /\ k <= Cardinality({t \in DOMAIN dict : dict[t].rating <= v})

\* C19: for a non-empty collection get_calculated_median_rate is the
\* textbook median of the ratings: the middle one of the ascending ratings
\* when the count is odd, the mean of the two central ones when it is even
\* (a median m is compared as 20 * m, a rating r being kept as 10 * r).
C19_MedianIsTextbookMedian ==
    (last.call = "get_calculated_median_rate" /\ DOMAIN movie_dict # {})
    => LET n == Cardinality(DOMAIN movie_dict)
       IN /\ last.msgs = {}
          /\ last.result =
               IF n % 2 = 1
               THEN 2 * KthRating(movie_dict, (n + 1) \div 2)
               ELSE KthRating(movie_dict, n \div 2)
                      + KthRating(movie_dict, n \div 2 + 1)

\* the median of four ratings whose two central values differ
C19_Witness ==
    /\ last.call = "get_calculated_median_rate"
    /\ Cardinality(DOMAIN movie_dict) = 4
    /\ KthRating(movie_dict, 2) # KthRating(movie_dict, 3)
    /\ last.result = KthRating(movie_dict, 2) + KthRating(movie_dict, 3)

\* C20: for a non-empty collection get_all_movies_extremes_by_mode with mode
\* best (worst) returns exactly the records whose rating is the maximum
\* (minimum): every tied record, unchanged, and no other.
C20_ExtremesReturnAllTies ==
    (/\ last.call = "get_all_movies_extremes_by_mode"
     /\ last.title \in {"best", "worst"}
     /\ DOMAIN movie_dict # {})
    => /\ DOMAIN last.result =
            {t \in DOMAIN movie_dict :
                \A u \in DOMAIN movie_dict :
                    IF last.title = "best"
                    THEN movie_dict[u].rating <= movie_dict[t].rating
                    ELSE movie_dict[t].rating <= movie_dict[u].rating}
       /\ \A t \in DOMAIN last.result : last.result[t] = movie_dict[t]

\* the best of a collection in which two records tie at the top and a third
\* rates lower
C20_Witness ==
    /\ last.call = "get_all_movies_extremes_by_mode"
    /\ last.title = "best"
    /\ DOMAIN movie_dict # {}
    /\ Cardinality(DOMAIN last.result) = 2
    /\ Cardinality(DOMAIN movie_dict) > 2


\* C21: on a non-empty collection a mode other than best or worst makes
\* get_all_movies_extremes_by_mode print the mode error and return no record
\* mapping, and the collection it was given is unchanged.
C21_InvalidModeReturnsNothing ==
    (/\ last.call = "get_all_movies_extremes_by_mode"
     /\ last.title \notin {"best", "worst"}
     /\ DOMAIN movie_dict # {})
    => /\ last.returned = "none"
       /\ last.msgs = {"BadMode"}
       /\ movie_dict = before.movie_dict

\* mode "top" on a collection of several records
C21_Witness ==
    /\ last.call = "get_all_movies_extremes_by_mode"
    /\ last.title = "top"
    /\ Cardinality(DOMAIN movie_dict) >= 2
    /\ last.returned = "none"
    /\ last.msgs = {"BadMode"}


\* the four functions the claim is about, in both modules that define them
EmptyInputCalls ==
    {"get_calculated_average_rate", "statistics.get_calculated_average_rate",
     "get_calculated_median_rate", "get_all_movies_extremes_by_mode",
     "get_random_movie"}

\* C22: average, median, extremes and random record, called on an empty
\* collection, each print the no-movies message and return no value; none of
\* them ends in an exception.
C22_EmptyInputIsReported ==
    (last.call \in EmptyInputCalls /\ DOMAIN movie_dict = {})
    => /\ last.returned = "none"
       /\ last.msgs = {"NoMovies"}


\* C23: on a non-empty collection filter_movies_by_attributes selects exactly
\* the records with rating >= min_rating and start_year <= year <= end_year,
\* the three bounds included, each with its attributes; when none qualifies
\* the selection is empty and the no-match message is printed, and the call
\* returns normally.
C23_FilterBoundsAreInclusive ==
    (last.call = "filter_movies_by_attributes" /\ DOMAIN movie_dict # {})
    => /\ DOMAIN last.result =
            {t \in DOMAIN movie_dict :
                /\ movie_dict[t].rating >= last.args[1]
                /\ last.args[2] <= movie_dict[t].year
                /\ movie_dict[t].year <= last.args[3]}
       /\ \A t \in DOMAIN last.result : last.result[t] = movie_dict[t]
       /\ last.msgs = IF DOMAIN last.result = {} THEN {"NoMatch"} ELSE {"Filtered"}
       /\ last.returned = "none"

\* a selected record whose rating is the minimum asked for and whose year is
\* the end year, next to a record that is left out
C23_Witness ==
    /\ last.call = "filter_movies_by_attributes"
    /\ DOMAIN movie_dict # {}
    /\ \E t \in DOMAIN last.result :
         /\ last.result[t].rating = last.args[1]
         /\ last.result[t].year = last.args[3]
    /\ DOMAIN last.result # DOMAIN movie_dict


\* the position of a title in an enumeration order
PositionIn(order, title) == CHOOSE i \in DOMAIN order : order[i] = title

\* C24: on a non-empty collection get_movies_sorted_by_attribute returns
\* exactly the input records, ordered by the attribute (non-increasing when
\* descending, non-decreasing when ascending), and two records with the same
\* attribute value stay in their input order, in both directions.
C24_SortIsStable ==
    (last.call = "get_movies_sorted_by_attribute" /\ DOMAIN movie_dict # {})
    => LET order == last.args[1]
           attribute == last.args[2]
           descending == last.args[3]
           out == last.result
       IN /\ Len(out) = Len(order)
          /\ {out[i] : i \in DOMAIN out} =
                {<<t, movie_dict[t]>> : t \in DOMAIN movie_dict}
          /\ \A i, j \in DOMAIN out :
               i < j =>
                 /\ IF descending
                    THEN out[i][2][attribute] >= out[j][2][attribute]
                    ELSE out[i][2][attribute] <= out[j][2][attribute]
                 /\ out[i][2][attribute] = out[j][2][attribute]
                      => PositionIn(order, out[i][1]) < PositionIn(order, out[j][1])

\* a descending sort by rating that moves records and in which two records
\* of equal rating are left in their input order
C24_Witness ==
    /\ last.call = "get_movies_sorted_by_attribute"
    /\ DOMAIN movie_dict # {}
    /\ last.args[2] = "rating"
    /\ last.args[3]
    /\ last.result # Items(movie_dict, last.args[1])
    /\ \E i, j \in DOMAIN last.result :
         /\ i < j
         /\ last.result[i][2].rating = last.result[j][2].rating
         /\ PositionIn(last.args[1], last.result[i][1])
              < PositionIn(last.args[1], last.result[j][1])


\* the single-entry mappings get_random_movie can return for a collection
RandomOutcomes(dict) ==
    UNION {{get_random_movie(Items(dict, order), i).result :
              i \in random_indexes(Items(dict, order))} : order \in Orders(dict)}

\* C25: on a non-empty collection get_random_movie returns a mapping with
\* exactly one entry, a (title, attributes) pair of the input, drawn at an
\* index within 0..len-1; and every entry of the input can be the result.
C25_RandomPicksOneEntry ==
    /\ (last.call = "get_random_movie" /\ DOMAIN movie_dict # {})
       => /\ Cardinality(DOMAIN last.result) = 1
          /\ \A t \in DOMAIN last.result :
               t \in DOMAIN movie_dict /\ last.result[t] = movie_dict[t]
          /\ last.args[1] \in 0..(Cardinality(DOMAIN movie_dict) - 1)
    /\ (pc = "analysis" /\ DOMAIN movie_dict # {})
       => RandomOutcomes(movie_dict) =
             {[x \in {t} |-> movie_dict[t]] : t \in DOMAIN movie_dict}

\* the last index drawn on a collection of several records
C25_Witness ==
    /\ last.call = "get_random_movie"
    /\ Cardinality(DOMAIN movie_dict) >= 2
    /\ last.args[1] = Cardinality(DOMAIN movie_dict) - 1
    /\ Cardinality(DOMAIN last.result) = 1


\* the handlers of list, statistics, random, search, sort and filter
ReadOnlyHandlers ==
    {"handle_show_movies", "handle_show_movie_statistics", "handle_random_movie",
     "handle_search_movie", "handle_sorted_movies_by_attribute",
     "handle_filter_movies"}

\* C26: list, statistics, random, search, sort and filter never mutate: after
\* any of them the in-memory collection, the store and the active session
\* are what they were before the command.
C26_ReadOnlyCommandsMutateNothing ==
    (last.call = "movie_menu" /\ last.handler \in ReadOnlyHandlers)
    => /\ movie_dict = before.movie_dict
       /\ movies = before.movies
       /\ users = before.users
       /\ active_user = before.active_user
       /\ active_user_id = before.active_user_id

\* statistics shown for a non-empty collection of the active user
C26_Witness ==
    /\ last.call = "movie_menu"
    /\ last.handler = "handle_show_movie_statistics"
    /\ "ResultShown" \in last.msgs
    /\ DOMAIN movie_dict # {}
    /\ movie_dict = before.movie_dict
    /\ active_user_id # NoUserId


\* C27: the keys of MOVIE_COMMAND_DISPATCHER are exactly the integers of
\* [MENU_MIN_INDEX, MENU_MAX_INDEX] = [0, 12]; every entry the prompt of the
\* movie menu loop accepts is a key, so each command of that loop runs the
\* handler of its code and never ends in the unknown-command error.
C27_DispatchTableIsDense ==
    /\ MENU_MIN_INDEX = 0 /\ MENU_MAX_INDEX = 12
    /\ DOMAIN MOVIE_COMMAND_DISPATCHER = MENU_MIN_INDEX..MENU_MAX_INDEX
    /\ \A entry \in MenuEntries :
         InRange(entry, MENU_MIN_INDEX, MENU_MAX_INDEX)
           => entry \in DOMAIN MOVIE_COMMAND_DISPATCHER
    /\ last.call = "movie_menu"
         => /\ InRange(last.code, MENU_MIN_INDEX, MENU_MAX_INDEX)
            /\ last.handler = MOVIE_COMMAND_DISPATCHER[last.code]
            /\ "UnknownCommand" \notin last.msgs
    /\ last.call = "movie_menu_prompt"
         => last.code \notin DOMAIN MOVIE_COMMAND_DISPATCHER

\* the command of the last index of the range
C27_Witness ==
    /\ last.call = "movie_menu"
    /\ last.code = MENU_MAX_INDEX
    /\ last.handler = "handle_switch_user"
    /\ "UnknownCommand" \notin last.msgs


\* u is displayed before v: lowercased username first, then id
ShownBefore(u, v) ==
    \/ StrRank(Lower(u.username)) < StrRank(Lower(v.username))
    \/ StrRank(Lower(u.username)) = StrRank(Lower(v.username)) /\ u.id < v.id

\* the registered user at position k of the case-insensitive order
UserAtPosition(utbl, k) ==
    CHOOSE u \in utbl : Cardinality({v \in utbl : ShownBefore(v, u)}) = k - 1

\* C28: in the user menu index k in 1..number of users picks the selection of
\* the user at position k of the case-insensitive order of usernames, index
\* number of users + 1 picks create-user, and so every registered user can be
\* selected whatever users were created before.
C28_EveryUserSelectable ==
    pc = "user_menu"
    => LET n == Cardinality(users)
       IN /\ \A k \in 1..n :
               LET sel == selected_command(users, k)
               IN /\ ~sel.crashed
                  /\ sel.cmd.handler = "handle_select_user"
                  /\ sel.cmd.args = UserAtPosition(users, k).id
          /\ LET sel == selected_command(users, n + 1)
             IN ~sel.crashed /\ sel.cmd.handler = "handle_create_user"


\* C29: the active user id and the active username are both unset or both
\* set; they are unset when the process starts, and when set they are the id
\* and the stored username of one user of the registry.
C29_SessionIsOneRegisteredUser ==
    /\ (active_user_id = NoUserId) <=> (active_user = NoUserName)
    /\ last.call = "none" => active_user_id = NoUserId
    /\ active_user_id # NoUserId
         => \E u \in users : u.id = active_user_id /\ u.username = active_user

\* the second user created is active in the movie menu
C29_Witness ==
    /\ pc = "movie_menu"
    /\ active_user_id = 2
    /\ active_user # NoUserName
    /\ \E u \in users : u.id = active_user_id /\ u.username = active_user


\* the rows of the store that belong to other users than uid
RowsOfOthers(tbl, uid) == {row \in tbl : row.user_id # uid}

\* C30: when a user has been selected the collection handed to the movie
\* menu loop is list_movies of that user, whatever the previous user had
\* loaded; during that loop it holds titles of that user's rows only, and each
\* command of the loop leaves the rows of every other user as they were.
C30_CollectionFollowsTheActiveUser ==
    /\ (last.call = "load" /\ ~last.read_fails)
         => movie_dict = list_movies(movies, active_user_id)
    /\ pc = "movie_menu"
         => DOMAIN movie_dict \subseteq DOMAIN list_movies(movies, active_user_id)
    /\ last.call = "movie_menu"
         => RowsOfOthers(movies, last.user_id) = RowsOfOthers(before.movies, last.user_id)

\* user 2 is loaded after user 1 had been active; both own a record of the
\* same title and the two records differ
C30_Witness ==
    /\ last.call = "load"
    /\ pc = "movie_menu"
    /\ active_user_id = 2
    /\ DOMAIN list_movies(movies, 1) # {}
    /\ DOMAIN movie_dict # {}
    /\ movie_dict = list_movies(movies, 2)
    /\ movie_dict # list_movies(movies, 1)
    /\ before.movie_dict = list_movies(movies, 1)

====
